---- MODULE Spec2Model ----
(***************************************************************************)
(* Catalog & configuration synchronisation backend (weapp-backend).        *)
(*                                                                         *)
(* The repository holds four revisions of one Express/Mongoose server:     *)
(*   src/unnamed/part_001  global catalog, no image normalisation          *)
(*   src/unnamed/part_000  global catalog, image normalisation             *)
(*   src/unnamed/part_002  global catalog, normalisation + shape check     *)
(*                         (the final catalog revision)                    *)
(*   src/server.js         owner-scoped catalog, admin-gated configuration *)
(*                                                                         *)
(* The state is the two MongoDB collections (goods, config), the wall      *)
(* clock read by `new Date()`, and one record per in-flight request.  An   *)
(* async handler is cut at its awaits: every store command is a step of    *)
(* its own, so that requests interleave exactly where the code yields.     *)
(***************************************************************************)
EXTENDS Integers, Sequences, FiniteSets, TLC

VARIABLES goods, config, now, req

vars == <<goods, config, now, req>>

(***************************************************************************)
(* Bounds of the model.                                                    *)
(***************************************************************************)
\* goods ids submitted by clients range over 1..MaxId
MaxId == 2
\* a submitted goodsList holds at most MaxLen items
MaxLen == 2
\* the clock runs over 0..MaxTime
MaxTime == 1

\* request slots; the sequential specifications only ever use slot 1
Procs == {1, 2, 3}

(***************************************************************************)
(* JavaScript values.  A value carries its typeof tag; a string is the     *)
(* sequence of its characters, a number or a date its integer.             *)
(***************************************************************************)
Undefined == [t |-> "undefined", s |-> <<>>, n |-> 0]

Str(chars) == [t |-> "string", s |-> chars, n |-> 0]

Num(k) == [t |-> "number", s |-> <<>>, n |-> k]

Date(k) == [t |-> "date", s |-> <<>>, n |-> k]

\* String.prototype.startsWith
startsWith(chars, prefix) ==
    /\ Len(chars) >= Len(prefix)
    /\ SubSeq(chars, 1, Len(prefix)) = prefix

DataImagePrefix == <<"d", "a", "t", "a", ":", "i", "m", "a", "g", "e", "/">>

\* the fixed placeholder returned by cleanImageURL
DefaultGoodsImage ==
    Str(<<"/", "i", "m", "a", "g", "e", "s", "/", "g", "o", "o", "d", "s", "/",
          "d", "e", "f", "a", "u", "l", "t", "_", "g", "o", "o", "d", "s",
          ".", "p", "n", "g">>)

\* isBase64Image taking any non-empty string for an image: typeof str ===
\* 'string' && str.length > 0
isNonEmptyString(str) == str.t = "string" /\ Len(str.s) > 0

\* typeof str === 'string' && str.startsWith('data:image/')
isBase64Image(str) == str.t = "string" /\ startsWith(str.s, DataImagePrefix)

cleanImageURL(url) == IF isBase64Image(url) THEN url ELSE DefaultGoodsImage

(***************************************************************************)
(* Request inputs.                                                         *)
(***************************************************************************)
\* an inline-encoded image, as /api/upload returns it
PngImage == Str(DataImagePrefix \o <<"p", "n", "g", ";", "b", "a", "s", "e", "6", "4", ",", "A">>)

\* the malformed image of the specification's scenario
NotBase64 == Str(<<"n", "o", "t", "-", "b", "a", "s", "e", "6", "4">>)

ImageInputs == {PngImage, NotBase64}

NameX == Str(<<"X">>)

DescD == Str(<<"d">>)

Score10 == Num(10)

\* an item of a submitted goodsList, as the client's JSON gives it
GoodsInput(id, name, score, desc, image, createdAt) ==
    [id |-> id, name |-> name, score |-> score, desc |-> desc,
     image |-> image, createdAt |-> createdAt]

\* createdAt as the client may send it back: absent, or an earlier date
CreatedAtInputs == {Undefined}

\* items carrying every required field
WellFormedInputs ==
    {GoodsInput(Num(i), NameX, Score10, DescD, img, c) :
        i \in 1..MaxId, img \in ImageInputs, c \in CreatedAtInputs}

\* items with exactly one required field missing
MalformedInputs ==
    {GoodsInput(Undefined, NameX, Score10, DescD, PngImage, Undefined),
     GoodsInput(Num(1), Undefined, Score10, DescD, PngImage, Undefined),
     GoodsInput(Num(1), NameX, Undefined, DescD, PngImage, Undefined),
     GoodsInput(Num(1), NameX, Score10, Undefined, PngImage, Undefined)}

SeqsUpTo(S, k) == UNION {[1..m -> S] : m \in 0..k}

\* req.body.goodsList: absent, a non-array value, or an array of items
NoList == [t |-> "undefined", items |-> <<>>]

StringList == [t |-> "string", items |-> <<>>]

ArrayOf(items) == [t |-> "array", items |-> items]

GoodsListInputs ==
    {NoList, StringList}
        \cup {ArrayOf(l) : l \in SeqsUpTo(WellFormedInputs \cup MalformedInputs, MaxLen)}

(***************************************************************************)
(* Mongoose: GoodsSchema.                                                  *)
(***************************************************************************)
\* `required: true` on a Number path
RequiredNumber(v) == v.t = "number"

\* `required: true` on a String path: the empty string fails too
RequiredString(v) == v.t = "string" /\ Len(v.s) > 0

\* document validation run by insertMany before anything is sent to MongoDB
GoodsValid(doc) ==
    /\ RequiredNumber(doc.id)
    /\ RequiredString(doc.name)
    /\ RequiredNumber(doc.score)
    /\ RequiredString(doc.desc)
    /\ RequiredString(doc.image)

\* DuplicateKey for a schema whose id is not declared `unique: true`
NoUniqueIndex(coll, doc) == FALSE

\* `unique: true` on id: the index rejects a second document with the same id
DuplicateKey(coll, doc) == \E e \in coll : e.id = doc.id

(***************************************************************************)
(* Mongoose: ConfigSchema (server.js; the other revisions have no          *)
(* adminPassword path).                                                    *)
(***************************************************************************)
GlobalConfigId == "global_config"

DefaultBannerImage ==
    Str(<<"/", "i", "m", "a", "g", "e", "s", "/", "b", "a", "n", "n", "e", "r",
          ".", "p", "n", "g">>)

\* stands for the schema's default banner title
DefaultBannerTitle == Str(<<"t", "i", "t", "l", "e">>)

\* stands for the schema's four default rules
DefaultRuleList ==
    ArrayOf(<<Str(<<"r", "1">>), Str(<<"r", "2">>), Str(<<"r", "3">>), Str(<<"r", "4">>)>>)

DefaultAdminPassword == Str(<<"1", "2", "3", "4", "5", "6">>)

\* new Config({ id: 'global_config' }) at time `time`: every default applies
NewConfig(time) ==
    [id |-> GlobalConfigId,
     bannerImage |-> DefaultBannerImage,
     bannerTitle |-> DefaultBannerTitle,
     ruleList |-> DefaultRuleList,
     adminPassword |-> DefaultAdminPassword,
     createdAt |-> Date(time),
     updatedAt |-> Date(time)]

\* no document
NoDoc ==
    [id |-> "none", bannerImage |-> Undefined, bannerTitle |-> Undefined,
     ruleList |-> NoList, adminPassword |-> Undefined,
     createdAt |-> Date(0), updatedAt |-> Date(0)]

\* Config.findOne({ id: 'global_config' }): the document, or NoDoc for null
FindOneConfig(coll) ==
    IF \E c \in coll : c.id = GlobalConfigId
      THEN CHOOSE c \in coll : c.id = GlobalConfigId
      ELSE NoDoc

(***************************************************************************)
(* Configuration request inputs.                                           *)
(***************************************************************************)
OtherPassword == Str(<<"p", "w">>)

TitleX == Str(<<"X">>)

RuleListX == ArrayOf(<<Str(<<"r", "u", "l", "e">>)>>)

\* process.env.RESET_SECRET || 'reset_secret_123456'
RESET_SECRET ==
    Str(<<"r", "e", "s", "e", "t", "_", "s", "e", "c", "r", "e", "t", "_",
          "1", "2", "3", "4", "5", "6">>)

NoBody ==
    [adminPwd |-> Undefined, bannerImage |-> Undefined, bannerTitle |-> Undefined,
     ruleList |-> NoList, newAdminPassword |-> Undefined, secret |-> Undefined,
     openid |-> Undefined]

AdminPwdInputs == {Undefined, DefaultAdminPassword, OtherPassword}

NewAdminPasswordInputs == {Undefined, Str(<<>>), Str(<<" ">>), OtherPassword, Num(7)}

\* bodies of POST /api/admin/config
AdminConfigBodies ==
    {[NoBody EXCEPT !.adminPwd = a, !.bannerImage = i, !.bannerTitle = t,
                    !.ruleList = r, !.newAdminPassword = n] :
        a \in AdminPwdInputs, i \in {Undefined, PngImage, NotBase64},
        t \in {Undefined, TitleX}, r \in {NoList, RuleListX},
        n \in NewAdminPasswordInputs}

\* bodies of POST /api/config
ConfigBodies ==
    {[NoBody EXCEPT !.bannerImage = i, !.bannerTitle = t, !.ruleList = r] :
        i \in {Undefined, PngImage, NotBase64},
        t \in {Undefined, TitleX}, r \in {NoList, RuleListX}}

\* bodies of POST /api/reset-password
ResetBodies ==
    {[NoBody EXCEPT !.secret = x] : x \in {Undefined, RESET_SECRET, OtherPassword}}

(***************************************************************************)
(* Request records.                                                        *)
(***************************************************************************)
\* op/pc: the handler and where it stands; goodsList: req.body.goodsList;
\* processed, idx: the documents handed to insertMany and the next to write;
\* scan: the documents a running deleteMany found and has not removed yet;
\* body: the other fields of req.body; doc, isNew, paths: the configuration
\* document the handler holds, whether it was built by `new Config`, and the
\* paths the handler has assigned; status, data: the response.
\* before and cfgBefore (the collections when the request arrived) and at
\* (the time it arrived) are history only.
Idle ==
    [op |-> "none", pc |-> "idle", goodsList |-> NoList, processed |-> <<>>,
     idx |-> 0, scan |-> {}, before |-> {}, status |-> 0, data |-> <<>>,
     body |-> NoBody, doc |-> NoDoc, isNew |-> FALSE, paths |-> {},
     cfgBefore |-> {}, at |-> 0]

Free(p) == req[p].pc = "idle"

\* res.status(code).json(...): the handler of request p is finished
Respond(rq, p, code, data) ==
    [rq EXCEPT ![p].pc = "done", ![p].status = code, ![p].data = data,
               ![p].processed = <<>>, ![p].idx = 0, ![p].scan = {},
               ![p].doc = NoDoc, ![p].isNew = FALSE, ![p].paths = {}]

\* the response has been delivered: the request record is dropped
Close(p) ==
    /\ req[p].pc = "done"
    /\ req' = [req EXCEPT ![p] = Idle]
    /\ UNCHANGED <<goods, config, now>>

\* a document leaves or enters the collection: no pending deleteMany still
\* has it among the documents it found at its start
Unscan(rq, d) == [q \in Procs |-> [rq[q] EXCEPT !.scan = @ \ {d}]]

(***************************************************************************)
(* GET /api/goods (final revision).                                        *)
(***************************************************************************)
\* Goods.find() with no sort: the documents in any order
FindUnsorted(coll) ==
    {l \in [1..Cardinality(coll) -> coll] :
        \A i, j \in DOMAIN l : i # j => l[i] # l[j]}

\* Goods.find().sort({ createdAt: 1 }): every order of the documents that is
\* ascending in createdAt (MongoDB leaves the order of equal keys open)
FindSortCreatedAt(coll) ==
    {l \in [1..Cardinality(coll) -> coll] :
        /\ \A i, j \in DOMAIN l : i # j => l[i] # l[j]
        /\ \A i, j \in DOMAIN l : i < j => l[i].createdAt.n <= l[j].createdAt.n}

\* processedGoods without the repair: res.json({ data: goods })
rawGoods(found) == found

\* goods.map(good => { ...; cleanedGood.image = cleanImageURL(...) })
processedGoods(found) ==
    [i \in DOMAIN found |-> [found[i] EXCEPT !.image = cleanImageURL(@)]]

GetApiGoods(p) ==
    /\ Free(p)
    /\ \E found \in FindSortCreatedAt(goods) :
          req' = Respond([req EXCEPT ![p] = [Idle EXCEPT !.op = "getGoods",
                                                         !.before = goods]],
                         p, 200, processedGoods(found))
    /\ UNCHANGED <<goods, config, now>>

(***************************************************************************)
(* POST /api/goods (final revision).                                       *)
(***************************************************************************)
\* !goodsList || !Array.isArray(goodsList)
InvalidGoodsListFormat(gl) == gl.t = "undefined" \/ gl.t # "array"

\* goodsList.map(good => ({ id, name, score, desc, image, createdAt, updatedAt }))
processedGoodsList(items, time) ==
    [i \in DOMAIN items |->
        [id |-> items[i].id,
         name |-> items[i].name,
         score |-> items[i].score,
         desc |-> items[i].desc,
         image |-> IF isBase64Image(items[i].image)
                     THEN items[i].image
                     ELSE cleanImageURL(items[i].image),
         createdAt |-> IF items[i].createdAt.t # "undefined"
                         THEN items[i].createdAt
                         ELSE Date(time),
         updatedAt |-> Date(time)]]

\* the request arrives with a goodsList drawn from `inputs`: the shape
\* check, then deleteMany({}) is issued
PostApiGoodsFrom(p, inputs) ==
    /\ Free(p)
    /\ \E gl \in inputs :
          LET rq == [req EXCEPT ![p] = [Idle EXCEPT !.op = "postGoods",
                                                    !.goodsList = gl,
                                                    !.before = goods]]
          IN  req' = IF InvalidGoodsListFormat(gl)
                       THEN Respond(rq, p, 400, <<>>)
                       ELSE [rq EXCEPT ![p].pc = "deleteMany",
                                       ![p].scan = goods]
    /\ UNCHANGED <<goods, config, now>>

PostApiGoods(p) == PostApiGoodsFrom(p, GoodsListInputs)

\* deleteMany removes the documents one at a time
DeleteManyStep(p) ==
    /\ req[p].pc = "deleteMany"
    /\ \E d \in goods :
          /\ goods' = goods \ {d}
          /\ req' = Unscan(req, d)
    /\ UNCHANGED <<config, now>>

\* DeleteManyDone with the `await` on deleteMany lost: the insert is issued
\* while documents of the old catalog are still there
DeleteManyDoneNoAwait(p) ==
    /\ req[p].pc = "deleteMany"
    /\ LET items == req[p].goodsList.items
           docs == processedGoodsList(items, now)
       IN  req' = IF Len(items) = 0
                    THEN Respond(req, p, 200, <<>>)
                    ELSE IF \E i \in DOMAIN docs : ~GoodsValid(docs[i])
                           THEN Respond(req, p, 500, <<>>)
                           ELSE [req EXCEPT ![p].pc = "insertMany",
                                            ![p].processed = docs,
                                            ![p].idx = 1]
    /\ UNCHANGED <<goods, config, now>>

\* deleteMany has removed everything it found; the handler maps the list
\* and calls insertMany, which validates every document first
DeleteManyDone(p) ==
    /\ req[p].pc = "deleteMany"
    /\ req[p].scan = {}
    /\ LET items == req[p].goodsList.items
           docs == processedGoodsList(items, now)
       IN  req' = IF Len(items) = 0
                    THEN Respond(req, p, 200, <<>>)
                    ELSE IF \E i \in DOMAIN docs : ~GoodsValid(docs[i])
                           THEN Respond(req, p, 500, <<>>)
                           ELSE [req EXCEPT ![p].pc = "insertMany",
                                            ![p].processed = docs,
                                            ![p].idx = 1]
    /\ UNCHANGED <<goods, config, now>>

\* the ordered bulk insert writes the next document, or stops at a
\* duplicate key and leaves what it has written
InsertManyStep(p) ==
    /\ req[p].pc = "insertMany"
    /\ LET d == req[p].processed[req[p].idx]
       IN  IF DuplicateKey(goods, d)
             THEN /\ req' = Respond(req, p, 500, <<>>)
                  /\ UNCHANGED goods
             ELSE /\ goods' = goods \cup {d}
                  /\ req' = IF req[p].idx = Len(req[p].processed)
                              THEN Respond(Unscan(req, d), p, 200, <<>>)
                              ELSE [Unscan(req, d) EXCEPT ![p].idx = @ + 1]
    /\ UNCHANGED <<config, now>>

\* the store fails during deleteMany or insertMany: the catch block answers
StorageError(p) ==
    /\ req[p].pc \in {"deleteMany", "insertMany"}
    /\ req' = Respond(req, p, 500, <<>>)
    /\ UNCHANGED <<goods, config, now>>

(***************************************************************************)
(* The clock.                                                              *)
(***************************************************************************)
Tick ==
    /\ now < MaxTime
    /\ now' = now + 1
    /\ UNCHANGED <<goods, config, req>>

(***************************************************************************)
(* The final catalog revision, one request at a time.                      *)
(***************************************************************************)
Init ==
    /\ goods = {}
    /\ config = {}
    /\ now = 0
    /\ req = [p \in Procs |-> Idle]

Next ==
    \/ Tick
    \/ GetApiGoods(1)
    \/ PostApiGoods(1)
    \/ DeleteManyStep(1)
    \/ DeleteManyDone(1)
    \/ InsertManyStep(1)
    \/ StorageError(1)
    \/ Close(1)

Spec == Init /\ [][Next]_vars

(***************************************************************************)
(* What a read returns, and what a list submits.                           *)
(***************************************************************************)
\* the client-visible content of a stored or returned document
Content(doc) ==
    [id |-> doc.id, name |-> doc.name, score |-> doc.score, desc |-> doc.desc,
     image |-> doc.image]

ContentOf(docs) == {Content(docs[i]) : i \in DOMAIN docs}

\* the content a submitted list stands for: its items, images normalised
Submitted(items) ==
    {[id |-> items[i].id, name |-> items[i].name, score |-> items[i].score,
      desc |-> items[i].desc, image |-> cleanImageURL(items[i].image)] :
        i \in DOMAIN items}

\* every response GET /api/goods can give in the current state
ListGoodsResponses == {processedGoods(found) : found \in FindSortCreatedAt(goods)}

PostDone(p) == req[p].pc = "done" /\ req[p].op = "postGoods"

\* C1: once a replace-all carrying N items is acknowledged, a list-goods read
\* returns exactly N items, and they are the submitted ones (same id, name,
\* score and desc, image normalised): nothing of the previous catalog
\* survives and nothing submitted is missing.
C1_ReplaceThenRead ==
    (PostDone(1) /\ req[1].status = 200) =>
        \A data \in ListGoodsResponses :
            /\ Len(data) = Len(req[1].goodsList.items)
            /\ ContentOf(data) = Submitted(req[1].goodsList.items)

\* C1 witness: the specification's scenario; a catalog holding item 1 is
\* replaced by one item with id 2 and image "not-base64", and the read
\* returns that one item with the placeholder image.
C1_Witness ==
    /\ PostDone(1) /\ req[1].status = 200
    /\ \E d \in req[1].before : d.id = Num(1)
    /\ Len(req[1].goodsList.items) = 1
    /\ req[1].goodsList.items[1].id = Num(2)
    /\ req[1].goodsList.items[1].image = NotBase64
    /\ \A data \in ListGoodsResponses :
          Len(data) = 1 /\ data[1].id = Num(2) /\ data[1].image = DefaultGoodsImage

\* an item lacks one of the required fields id, name, score, desc
MissingRequired(item) ==
    \/ item.id.t = "undefined"
    \/ item.name.t = "undefined"
    \/ item.score.t = "undefined"
    \/ item.desc.t = "undefined"

\* a malformed payload: not a sequence, or an item missing a required field
Malformed(gl) ==
    \/ gl.t # "array"
    \/ \E i \in DOMAIN gl.items : MissingRequired(gl.items[i])

\* the stored catalog is the submitted list, whole
HoldsNewList(coll, items) ==
    /\ Cardinality(coll) = Len(items)
    /\ {Content(d) : d \in coll} = Submitted(items)

\* C2 (as claimed): a replace-all with a malformed payload is answered with
\* a validation error (400) and the stored catalog is what it was before
\* the request.
C2_MalformedLeavesStore ==
    (PostDone(1) /\ Malformed(req[1].goodsList)) =>
        (req[1].status = 400 /\ goods = req[1].before)

\* C2, the divergence reached: a list with an item missing a required field
\* has been answered 500 and the catalog, not empty before, is empty.
C2_Witness ==
    /\ PostDone(1) /\ req[1].goodsList.t = "array"
    /\ Malformed(req[1].goodsList)
    /\ req[1].status = 500
    /\ req[1].before # {} /\ goods = {}

\* C3 (as claimed): when the store fails during a replace-all of a
\* well-formed list (deleteMany or insertMany fails, or the bulk insert stops
\* at a duplicate key), the catalog is the complete old list or the complete
\* new list.
C3_NeverHalfReplaced ==
    (PostDone(1) /\ ~Malformed(req[1].goodsList) /\ req[1].status = 500) =>
        (goods = req[1].before \/ HoldsNewList(goods, req[1].goodsList.items))

\* C3, the divergence reached: a failed replace-all of two well-formed items
\* over a catalog of two has left one item of the new list.
C3_Witness ==
    /\ PostDone(1) /\ ~Malformed(req[1].goodsList) /\ req[1].status = 500
    /\ Len(req[1].goodsList.items) = 2
    /\ Cardinality(req[1].before) = 2
    /\ Cardinality(goods) = 1
    /\ {Content(d) : d \in goods} \subseteq Submitted(req[1].goodsList.items)

(***************************************************************************)
(* The final catalog revision under concurrency: two clients each submit   *)
(* one replace-all of a well-formed list with distinct ids, a third reads, *)
(* and the store does not fail.  The catalog at the start is one an        *)
(* earlier replace-all has left; the requests fall within one tick of the  *)
(* clock.                                                                  *)
(***************************************************************************)
DistinctIds(items) ==
    \A i, j \in DOMAIN items : i # j => items[i].id # items[j].id

\* lists of well-formed items with distinct ids and inline-encoded images
ValidGoodsListInputs ==
    {ArrayOf(l) :
        l \in {m \in SeqsUpTo({it \in WellFormedInputs : it.image = PngImage}, MaxLen) :
                  DistinctIds(m)}}

\* the documents a completed replace-all of `items` at time 0 has stored
StoredBy(items) ==
    LET docs == processedGoodsList(items, 0) IN {docs[i] : i \in DOMAIN docs}

PostApiGoodsOnce(p) == PostApiGoodsFrom(p, ValidGoodsListInputs)

InitConc ==
    /\ goods \in {StoredBy(gl.items) : gl \in ValidGoodsListInputs}
    /\ config = {}
    /\ now = 0
    /\ req = [p \in Procs |-> Idle]

NextConc ==
    \/ GetApiGoods(3)
    \/ Close(3)
    \/ \E p \in {1, 2} :
          \/ PostApiGoodsOnce(p)
          \/ DeleteManyStep(p)
          \/ DeleteManyDone(p)
          \/ InsertManyStep(p)

SpecConc == InitConc /\ [][NextConc]_vars

InFlight(p) == req[p].pc \in {"deleteMany", "insertMany"}

\* C4 (as claimed): a read taken while one replace-all is in flight (and no
\* other has been submitted) returns the complete old list, the complete new
\* list, or nothing.
C4_ReaderSeesOldNewOrEmpty ==
    [][\A w \in {1, 2} :
          (/\ req[3].pc = "idle" /\ req'[3].pc = "done"
           /\ InFlight(w) /\ req[3 - w].pc = "idle")
          => \/ Len(req'[3].data) = 0
             \/ /\ Len(req'[3].data) = Cardinality(req[w].before)
                /\ ContentOf(req'[3].data) = {Content(d) : d \in req[w].before}
             \/ /\ Len(req'[3].data) = Len(req[w].goodsList.items)
                /\ ContentOf(req'[3].data) = Submitted(req[w].goodsList.items)]_vars

\* C4, the divergence reached: with one replace-all of two items over a
\* catalog of two in flight, a read has returned a single item.
C4_Witness ==
    /\ req[3].pc = "done" /\ InFlight(1) /\ req[2].pc = "idle"
    /\ Cardinality(req[1].before) = 2
    /\ Len(req[1].goodsList.items) = 2
    /\ Len(req[3].data) = 1

\* C5 (as claimed): when the second of two replace-all requests completes,
\* the catalog is exactly the list that request submitted.
C5_LastWriterWins ==
    [][\A p \in {1, 2} :
          (req[p].pc # "done" /\ req'[p].pc = "done" /\ req[3 - p].pc = "done")
          => HoldsNewList(goods', req[p].goodsList.items)]_vars

\* C5, the divergence reached: both replace-alls are acknowledged and the
\* catalog is the union of the two submitted lists.
C5_Witness ==
    /\ PostDone(1) /\ PostDone(2)
    /\ req[1].status = 200 /\ req[2].status = 200
    /\ Len(req[1].goodsList.items) = 1 /\ Len(req[2].goodsList.items) = 1
    /\ Cardinality(goods) = 2
    /\ {Content(d) : d \in goods} =
          Submitted(req[1].goodsList.items) \cup Submitted(req[2].goodsList.items)

(***************************************************************************)
(* Configuration handlers.                                                 *)
(***************************************************************************)
\* a configuration request arrives
Begin(p, op, body) ==
    [req EXCEPT ![p] = [Idle EXCEPT !.op = op, !.body = body,
                                    !.cfgBefore = config, !.at = now]]

\* publicConfig without the destructuring: res.json({ data: config })
fullConfig(c) == c

\* const { bannerImage, bannerTitle, ruleList, updatedAt } = config.toObject();
\* res.json({ data: { bannerImage, bannerTitle, ruleList, updatedAt } })
publicConfig(c) ==
    [bannerImage |-> c.bannerImage, bannerTitle |-> c.bannerTitle,
     ruleList |-> c.ruleList, updatedAt |-> c.updatedAt]

\* the same with bannerImage = isBase64Image(bannerImage) ? bannerImage
\*                                                      : cleanImageURL(bannerImage)
publicConfigCleaned(c) ==
    [bannerImage |-> IF isBase64Image(c.bannerImage)
                       THEN c.bannerImage
                       ELSE cleanImageURL(c.bannerImage),
     bannerTitle |-> c.bannerTitle,
     ruleList |-> c.ruleList, updatedAt |-> c.updatedAt]

\* what the handler answers once its save has succeeded
SavedResponse(r) ==
    IF r.op = "getConfig" THEN publicConfig(r.doc)
    ELSE IF r.op = "getConfigFinal" THEN publicConfigCleaned(r.doc)
    ELSE <<>>

\* the paths Mongoose marks modified: those assigned a value other than the
\* loaded one
ModifiedPaths(loaded, doc) == {f \in DOMAIN loaded : doc[f] # loaded[f]}

\* document.save() of a loaded document writes its modified paths
SetPaths(stored, doc, paths) ==
    [f \in DOMAIN stored |-> IF f \in paths THEN doc[f] ELSE stored[f]]

\* await config.save(): an insert for a document built by `new Config` (the
\* unique index on id may reject it), an update of the modified paths for a
\* loaded one (which fails when the document is gone)
SaveConfig(p) ==
    /\ req[p].pc = "save"
    /\ LET r == req[p]
       IN  IF r.isNew
             THEN IF DuplicateKey(config, r.doc)
                    THEN /\ req' = Respond(req, p, 500, <<>>)
                         /\ UNCHANGED config
                    ELSE /\ config' = config \cup {r.doc}
                         /\ req' = Respond(req, p, 200, SavedResponse(r))
             ELSE IF r.paths # {} /\ ~DuplicateKey(config, r.doc)
                    THEN /\ req' = Respond(req, p, 500, <<>>)
                         /\ UNCHANGED config
                    ELSE /\ config' = {IF c.id = r.doc.id
                                         THEN SetPaths(c, r.doc, r.paths)
                                         ELSE c : c \in config}
                         /\ req' = Respond(req, p, 200, SavedResponse(r))
    /\ UNCHANGED <<goods, now>>

(***************************************************************************)
(* server.js: GET /api/config.                                             *)
(***************************************************************************)
GetApiConfig(p) ==
    /\ Free(p)
    /\ LET rq == Begin(p, "getConfig", NoBody)
           found == FindOneConfig(config)
       IN  req' = IF found # NoDoc
                    THEN Respond(rq, p, 200, publicConfig(found))
                    ELSE [rq EXCEPT ![p].pc = "save",
                                    ![p].doc = NewConfig(now),
                                    ![p].isNew = TRUE]
    /\ UNCHANGED <<goods, config, now>>

(***************************************************************************)
(* server.js: POST /api/admin/config, registered twice.                    *)
(***************************************************************************)
\* InvalidAdminPassword checking only a password that was sent:
\* adminPwd && adminPwd !== config.adminPassword
InvalidAdminPasswordIfGiven(adminPwd, c) ==
    adminPwd # Undefined /\ adminPwd # c.adminPassword

\* adminPwd !== config.adminPassword
InvalidAdminPassword(adminPwd, c) == adminPwd # c.adminPassword

\* the first registration: return the full configuration
\* AdminConfigRead loading the record with get-or-create: an absent record
\* is built with the defaults and stored before the password is compared
AdminConfigReadOrCreate(p, bodies) ==
    /\ Free(p)
    /\ \E body \in bodies :
          LET rq == Begin(p, "adminRead", body)
              found == FindOneConfig(config)
              c == IF found = NoDoc THEN NewConfig(now) ELSE found
          IN  /\ config' = config \cup {c}
              /\ req' = IF InvalidAdminPassword(body.adminPwd, c)
                          THEN Respond(rq, p, 401, <<>>)
                          ELSE Respond(rq, p, 200, c)
    /\ UNCHANGED <<goods, now>>

AdminConfigRead(p, bodies) ==
    /\ Free(p)
    /\ \E body \in bodies :
          LET rq == Begin(p, "adminRead", body)
              found == FindOneConfig(config)
          IN  req' = IF found = NoDoc
                       THEN Respond(rq, p, 404, <<>>)
                       ELSE IF InvalidAdminPassword(body.adminPwd, found)
                              THEN Respond(rq, p, 401, <<>>)
                              ELSE Respond(rq, p, 200, found)
    /\ UNCHANGED <<goods, config, now>>

\* String.prototype.trim() !== ''
IsSpace(ch) == ch \in {" ", "\t", "\n", "\r"}

NotBlank(chars) == \E i \in DOMAIN chars : ~IsSpace(chars[i])

\* newAdminPassword !== undefined && newAdminPassword.trim() !== ''
NewPasswordGiven(v) == v.t # "undefined" /\ NotBlank(v.s)

\* the assignments of the write handler, lines 198-204
AssignAdminFields(c, body, time) ==
    [c EXCEPT
        !.bannerImage = IF body.bannerImage # Undefined THEN body.bannerImage ELSE @,
        !.bannerTitle = IF body.bannerTitle # Undefined THEN body.bannerTitle ELSE @,
        !.ruleList = IF body.ruleList # NoList THEN body.ruleList ELSE @,
        !.adminPassword = IF NewPasswordGiven(body.newAdminPassword)
                            THEN body.newAdminPassword ELSE @,
        !.updatedAt = Date(time)]

\* AdminConfigWrite with the assignments and the save moved ahead of the
\* password check
AdminConfigWriteEager(p, bodies) ==
    /\ Free(p)
    /\ \E body \in bodies :
          LET rq == Begin(p, "adminWrite", body)
              found == FindOneConfig(config)
          IN  IF found = NoDoc
                THEN /\ req' = Respond(rq, p, 404, <<>>)
                     /\ UNCHANGED config
                ELSE /\ config' = {IF c.id = found.id
                                     THEN AssignAdminFields(c, body, now)
                                     ELSE c : c \in config}
                     /\ req' = IF InvalidAdminPassword(body.adminPwd, found)
                                 THEN Respond(rq, p, 401, <<>>)
                                 ELSE Respond(rq, p, 200, <<>>)
    /\ UNCHANGED <<goods, now>>

\* the second registration: check the password, assign the supplied fields,
\* save.  A newAdminPassword that is no string has no trim(): the TypeError
\* is caught and answered 500 before anything is saved.
AdminConfigWrite(p, bodies) ==
    /\ Free(p)
    /\ \E body \in bodies :
          LET rq == Begin(p, "adminWrite", body)
              found == FindOneConfig(config)
          IN  req' = IF found = NoDoc
                       THEN Respond(rq, p, 404, <<>>)
                       ELSE IF InvalidAdminPassword(body.adminPwd, found)
                              THEN Respond(rq, p, 401, <<>>)
                              ELSE IF body.newAdminPassword.t \notin {"undefined", "string"}
                                     THEN Respond(rq, p, 500, <<>>)
                                     ELSE [rq EXCEPT
                                             ![p].pc = "save",
                                             ![p].doc = AssignAdminFields(found, body, now),
                                             ![p].paths = ModifiedPaths(found,
                                                 AssignAdminFields(found, body, now))]
    /\ UNCHANGED <<goods, config, now>>

\* Express runs the first handler registered for the route; it always
\* answers and never calls next(), so the second registration is not run
PostApiAdminConfig(p) == AdminConfigRead(p, AdminConfigBodies)

(***************************************************************************)
(* server.js: POST /api/reset-password.                                    *)
(***************************************************************************)
\* PostApiResetPassword without the assignment config.adminPassword = '123456'
PostApiResetPasswordKeep(p) ==
    /\ Free(p)
    /\ \E body \in ResetBodies :
          LET rq == Begin(p, "resetPassword", body)
              found == FindOneConfig(config)
              c == IF found = NoDoc THEN NewConfig(now) ELSE found
          IN  req' = IF body.secret # RESET_SECRET
                       THEN Respond(rq, p, 401, <<>>)
                       ELSE [rq EXCEPT ![p].pc = "save",
                                       ![p].doc = c,
                                       ![p].isNew = (found = NoDoc),
                                       ![p].paths = {}]
    /\ UNCHANGED <<goods, config, now>>

\* PostApiResetPassword with the reset done ahead of the comparison of the
\* secret
PostApiResetPasswordEager(p) ==
    /\ Free(p)
    /\ \E body \in ResetBodies :
          LET rq == Begin(p, "resetPassword", body)
              found == FindOneConfig(config)
              c == IF found = NoDoc THEN NewConfig(now) ELSE found
          IN  /\ config' = (config \ {found})
                              \cup {[c EXCEPT !.adminPassword = DefaultAdminPassword]}
              /\ req' = IF body.secret # RESET_SECRET
                          THEN Respond(rq, p, 401, <<>>)
                          ELSE Respond(rq, p, 200, <<>>)
    /\ UNCHANGED <<goods, now>>

PostApiResetPassword(p) ==
    /\ Free(p)
    /\ \E body \in ResetBodies :
          LET rq == Begin(p, "resetPassword", body)
              found == FindOneConfig(config)
              c == IF found = NoDoc THEN NewConfig(now) ELSE found
          IN  req' = IF body.secret # RESET_SECRET
                       THEN Respond(rq, p, 401, <<>>)
                       ELSE [rq EXCEPT
                               ![p].pc = "save",
                               ![p].doc = [c EXCEPT !.adminPassword = DefaultAdminPassword],
                               ![p].isNew = (found = NoDoc),
                               ![p].paths = ModifiedPaths(c,
                                   [c EXCEPT !.adminPassword = DefaultAdminPassword])]
    /\ UNCHANGED <<goods, config, now>>

(***************************************************************************)
(* server.js as deployed, one request at a time.  connectDB creates the    *)
(* default configuration at start-up when the database holds none; a       *)
(* request may be served before it has.                                    *)
(***************************************************************************)
InitAdmin ==
    /\ goods = {}
    /\ config \in {{}, {NewConfig(0)}}
    /\ now = 0
    /\ req = [p \in Procs |-> Idle]

NextAdmin ==
    \/ Tick
    \/ GetApiConfig(1)
    \/ PostApiAdminConfig(1)
    \/ PostApiResetPassword(1)
    \/ SaveConfig(1)
    \/ Close(1)

SpecAdmin == InitAdmin /\ [][NextAdmin]_vars

(***************************************************************************)
(* The handlers of server.js called one by one, the second registration of *)
(* POST /api/admin/config included.                                        *)
(***************************************************************************)
NextAdminHandlers ==
    \/ Tick
    \/ GetApiConfig(1)
    \/ AdminConfigRead(1, AdminConfigBodies)
    \/ AdminConfigWrite(1, AdminConfigBodies)
    \/ PostApiResetPassword(1)
    \/ SaveConfig(1)
    \/ Close(1)

SpecAdminHandlers == InitAdmin /\ [][NextAdminHandlers]_vars

(***************************************************************************)
(* Final revision (part_002): GET /api/config and POST /api/config.  Its   *)
(* ConfigSchema has no adminPassword path.                                 *)
(***************************************************************************)
NewConfigFinal(time) == [NewConfig(time) EXCEPT !.adminPassword = Undefined]

\* GetApiConfigFinal saving the repaired bannerImage of a record it found
GetApiConfigFinalWriteBack(p) ==
    /\ Free(p)
    /\ LET rq == Begin(p, "getConfigFinal", NoBody)
           found == FindOneConfig(config)
       IN  IF found # NoDoc
             THEN /\ config' = {[c EXCEPT !.bannerImage = cleanImageURL(@)] : c \in config}
                  /\ req' = Respond(rq, p, 200, publicConfigCleaned(found))
             ELSE /\ config' = config
                  /\ req' = [rq EXCEPT ![p].pc = "save",
                                       ![p].doc = NewConfigFinal(now),
                                       ![p].isNew = TRUE]
    /\ UNCHANGED <<goods, now>>

GetApiConfigFinal(p) ==
    /\ Free(p)
    /\ LET rq == Begin(p, "getConfigFinal", NoBody)
           found == FindOneConfig(config)
       IN  req' = IF found # NoDoc
                    THEN Respond(rq, p, 200, publicConfigCleaned(found))
                    ELSE [rq EXCEPT ![p].pc = "save",
                                    ![p].doc = NewConfigFinal(now),
                                    ![p].isNew = TRUE]
    /\ UNCHANGED <<goods, config, now>>

\* the update branch, lines 163-170: AssignConfigFields with every absent
\* field put back to its schema default (a replace instead of a merge)
ReplaceConfigFields(c, body, time) ==
    [c EXCEPT
        !.bannerImage = IF body.bannerImage # Undefined
                          THEN cleanImageURL(body.bannerImage)
                          ELSE DefaultBannerImage,
        !.bannerTitle = IF body.bannerTitle # Undefined
                          THEN body.bannerTitle ELSE DefaultBannerTitle,
        !.ruleList = IF body.ruleList # NoList THEN body.ruleList ELSE DefaultRuleList,
        !.updatedAt = Date(time)]

\* the update branch, lines 163-170
AssignConfigFields(c, body, time) ==
    [c EXCEPT
        !.bannerImage = IF body.bannerImage # Undefined
                          THEN (IF isBase64Image(body.bannerImage)
                                  THEN body.bannerImage
                                  ELSE cleanImageURL(body.bannerImage))
                          ELSE @,
        !.bannerTitle = IF body.bannerTitle # Undefined THEN body.bannerTitle ELSE @,
        !.ruleList = IF body.ruleList # NoList THEN body.ruleList ELSE @,
        !.updatedAt = Date(time)]

\* the create branch, lines 175-180: an undefined bannerTitle or ruleList
\* takes the schema default, bannerImage is normalised whatever it is
CreateConfig(body, time) ==
    [NewConfigFinal(time) EXCEPT
        !.bannerImage = IF isBase64Image(body.bannerImage)
                          THEN body.bannerImage
                          ELSE cleanImageURL(body.bannerImage),
        !.bannerTitle = IF body.bannerTitle # Undefined THEN body.bannerTitle ELSE @,
        !.ruleList = IF body.ruleList # NoList THEN body.ruleList ELSE @]

PostApiConfig(p) ==
    /\ Free(p)
    /\ \E body \in ConfigBodies :
          LET rq == Begin(p, "postConfig", body)
              found == FindOneConfig(config)
          IN  req' = IF found # NoDoc
                       THEN [rq EXCEPT
                               ![p].pc = "save",
                               ![p].doc = AssignConfigFields(found, body, now),
                               ![p].paths = ModifiedPaths(found,
                                   AssignConfigFields(found, body, now))]
                       ELSE [rq EXCEPT
                               ![p].pc = "save",
                               ![p].doc = CreateConfig(body, now),
                               ![p].isNew = TRUE]
    /\ UNCHANGED <<goods, config, now>>

(***************************************************************************)
(* The configuration handlers of the final revision, one request at a      *)
(* time, on a database that holds no configuration yet.                    *)
(***************************************************************************)
InitConfig ==
    /\ goods = {}
    /\ config = {}
    /\ now = 0
    /\ req = [p \in Procs |-> Idle]

NextConfig ==
    \/ Tick
    \/ GetApiConfigFinal(1)
    \/ PostApiConfig(1)
    \/ SaveConfig(1)
    \/ Close(1)

SpecConfig == InitConfig /\ [][NextConfig]_vars

(***************************************************************************)
(* Properties of the configuration handlers.                               *)
(***************************************************************************)
Done(p, op) == req[p].pc = "done" /\ req[p].op = op

AdminDone(p) == Done(p, "adminRead") \/ Done(p, "adminWrite")

\* the configuration record the request found when it arrived (NoDoc: none)
StoredBefore(p) == FindOneConfig(req[p].cfgBefore)

PasswordValues == {Undefined, DefaultAdminPassword, OtherPassword}

\* C6: the response of the public config read has the fields bannerImage,
\* bannerTitle, ruleList and updatedAt and no other (so no admin secret), and
\* it is the response the same record would get with any other stored
\* adminPassword.
C6_PublicReadHidesSecret ==
    (Done(1, "getConfig") /\ req[1].status = 200) =>
        /\ DOMAIN req[1].data = {"bannerImage", "bannerTitle", "ruleList", "updatedAt"}
        /\ \A c \in config : \A pw \in PasswordValues :
              publicConfig([c EXCEPT !.adminPassword = pw]) = req[1].data

\* C6 witness: a public read answered while the stored secret is a rotated
\* one.
C6_Witness ==
    /\ Done(1, "getConfig") /\ req[1].status = 200
    /\ \E c \in config : c.adminPassword = OtherPassword

\* C7: with a record present whose secret is S, an admin request is answered
\* 401 exactly when the supplied secret differs from S (an absent one
\* included); supplying S, the read returns the configuration, and the write
\* goes on to its save.
C7_AdminGate ==
    /\ (AdminDone(1) /\ StoredBefore(1) # NoDoc) =>
          LET S == StoredBefore(1).adminPassword
              r == req[1]
          IN  /\ (r.status = 401) <=> (r.body.adminPwd # S)
              /\ (r.op = "adminRead" /\ r.body.adminPwd = S) =>
                    (r.status = 200 /\ r.data = StoredBefore(1))
              /\ (r.op = "adminWrite" /\ r.body.adminPwd = S
                    /\ r.body.newAdminPassword.t \in {"undefined", "string"}) =>
                    r.status = 200
    /\ (req[1].op = "adminWrite" /\ req[1].pc = "save") =>
          req[1].body.adminPwd = StoredBefore(1).adminPassword

\* C7 witness: the stored secret has been rotated; a read supplying the new
\* secret is given the configuration.
C7_Witness ==
    /\ Done(1, "adminRead") /\ req[1].status = 200
    /\ StoredBefore(1).adminPassword = OtherPassword
    /\ req[1].body.adminPwd = OtherPassword
    /\ req[1].data.adminPassword = OtherPassword

\* C8: after an admin config request answered 401 or 404 the stored
\* configuration (bannerImage, bannerTitle, ruleList, adminPassword,
\* updatedAt, and whether a record exists) is what it was when the request
\* arrived.
C8_NoMutationBeforeAuthorization ==
    (AdminDone(1) /\ req[1].status \in {401, 404}) => config = req[1].cfgBefore

\* C8 witness: a write request with a wrong secret, carrying fields and a
\* new secret, has been refused.
C8_Witness ==
    /\ Done(1, "adminWrite") /\ req[1].status = 401
    /\ req[1].body.bannerTitle = TitleX
    /\ req[1].body.bannerImage = PngImage
    /\ req[1].body.newAdminPassword = OtherPassword
    /\ req[1].cfgBefore # {}

\* C9 (as claimed): once a POST /api/admin/config carrying the correct secret
\* is acknowledged, the stored configuration holds the supplied bannerImage,
\* bannerTitle and ruleList and an updatedAt stamped by the request.
C9_GatedWriteStores ==
    (AdminDone(1) /\ req[1].status = 200) =>
        LET c == FindOneConfig(config)
            b == req[1].body
        IN  /\ b.bannerImage # Undefined => c.bannerImage = b.bannerImage
            /\ b.bannerTitle # Undefined => c.bannerTitle = b.bannerTitle
            /\ b.ruleList # NoList => c.ruleList = b.ruleList
            /\ c.updatedAt = Date(req[1].at)

\* C9, the divergence reached: a request with the correct secret and a new
\* bannerTitle is acknowledged and the stored configuration is untouched.
C9_Witness ==
    /\ Done(1, "adminRead") /\ req[1].status = 200
    /\ req[1].body.adminPwd = StoredBefore(1).adminPassword
    /\ req[1].body.bannerTitle = TitleX
    /\ config = req[1].cfgBefore
    /\ FindOneConfig(config).bannerTitle = DefaultBannerTitle

\* C10: a config write on an existing record sets each supplied field to the
\* supplied value (bannerImage normalised) and updatedAt to the time of the
\* request; every field the request does not carry keeps its stored value,
\* and the record stays the only one.
C10_ConfigMergePatch ==
    (Done(1, "postConfig") /\ req[1].status = 200 /\ req[1].cfgBefore # {}) =>
        LET old == StoredBefore(1)
            new == FindOneConfig(config)
            b == req[1].body
        IN  /\ Cardinality(config) = 1
            /\ new.bannerImage = IF b.bannerImage # Undefined
                                   THEN cleanImageURL(b.bannerImage)
                                   ELSE old.bannerImage
            /\ new.bannerTitle = IF b.bannerTitle # Undefined
                                   THEN b.bannerTitle ELSE old.bannerTitle
            /\ new.ruleList = IF b.ruleList # NoList THEN b.ruleList ELSE old.ruleList
            /\ new.updatedAt = Date(req[1].at)
            /\ new.id = old.id
            /\ new.createdAt = old.createdAt
            /\ new.adminPassword = old.adminPassword

\* C10 witness: the specification's example; { bannerTitle: "X" } alone is
\* written over a record with its own bannerImage and ruleList: only the
\* title changes.
C10_Witness ==
    /\ Done(1, "postConfig") /\ req[1].status = 200
    /\ req[1].body = [NoBody EXCEPT !.bannerTitle = TitleX]
    /\ StoredBefore(1).bannerImage = PngImage
    /\ StoredBefore(1).ruleList = RuleListX
    /\ StoredBefore(1).bannerTitle = DefaultBannerTitle
    /\ FindOneConfig(config).bannerTitle = TitleX
    /\ FindOneConfig(config).bannerImage = PngImage
    /\ FindOneConfig(config).ruleList = RuleListX

\* The write handler of server.js, called directly, is a merge-patch too:
\* absent fields keep their stored values.
AdminWriteMergePatch ==
    (Done(1, "adminWrite") /\ req[1].status = 200) =>
        LET old == StoredBefore(1)
            new == FindOneConfig(config)
            b == req[1].body
        IN  /\ new.bannerImage = IF b.bannerImage # Undefined
                                   THEN b.bannerImage ELSE old.bannerImage
            /\ new.bannerTitle = IF b.bannerTitle # Undefined
                                   THEN b.bannerTitle ELSE old.bannerTitle
            /\ new.ruleList = IF b.ruleList # NoList THEN b.ruleList ELSE old.ruleList
            /\ new.adminPassword = IF NewPasswordGiven(b.newAdminPassword)
                                     THEN b.newAdminPassword ELSE old.adminPassword
            /\ new.updatedAt = Date(req[1].at)

(***************************************************************************)
(* Properties of the reset path.                                           *)
(***************************************************************************)
\* C11: once a reset request carrying the reset secret is answered, it is
\* acknowledged, there is one configuration record, its adminPassword is
\* the default '123456' whatever it was, every other field is what it was
\* (or, when no record existed, the schema default), and the admin gate
\* accepts the default secret.
C11_ResetRestoresDefault ==
    (Done(1, "resetPassword") /\ req[1].body.secret = RESET_SECRET) =>
        LET old == StoredBefore(1)
            new == FindOneConfig(config)
        IN  /\ req[1].status = 200
            /\ Cardinality(config) = 1
            /\ new.adminPassword = DefaultAdminPassword
            /\ ~InvalidAdminPassword(DefaultAdminPassword, new)
            /\ new = [(IF old = NoDoc THEN NewConfig(req[1].at) ELSE old)
                         EXCEPT !.adminPassword = DefaultAdminPassword]

\* C11 witness: the stored secret had been changed, and a reset has put
\* the default back.
C11_Witness ==
    /\ Done(1, "resetPassword") /\ req[1].status = 200
    /\ StoredBefore(1).adminPassword = OtherPassword
    /\ FindOneConfig(config).adminPassword = DefaultAdminPassword

\* C12: a reset request whose secret is not the reset secret (absent
\* included) is answered 401 and the configuration collection is what it
\* was: no field changed, no record created.
C12_WrongResetSecretChangesNothing ==
    (Done(1, "resetPassword") /\ req[1].body.secret # RESET_SECRET) =>
        (req[1].status = 401 /\ config = req[1].cfgBefore)

\* C12 witness: a reset with a wrong secret has been refused while the
\* stored secret is a changed one.
C12_Witness ==
    /\ Done(1, "resetPassword") /\ req[1].status = 401
    /\ req[1].body.secret = OtherPassword
    /\ FindOneConfig(config).adminPassword = OtherPassword

(***************************************************************************)
(* server.js as deployed with two clients served concurrently: a handler   *)
(* is suspended at its `await config.save()` while the other runs.         *)
(***************************************************************************)
Clients == {1, 2}

\* the first registration reads adminPwd only
AdminReadBodies == {[NoBody EXCEPT !.adminPwd = a] : a \in AdminPwdInputs}

NextAdminConc ==
    \/ Tick
    \/ \E p \in Clients :
          \/ GetApiConfig(p)
          \/ AdminConfigRead(p, AdminReadBodies)
          \/ PostApiResetPassword(p)
          \/ SaveConfig(p)
          \/ Close(p)

SpecAdminConc == InitAdmin /\ [][NextAdminConc]_vars

(***************************************************************************)
(* The final revision's configuration routes with two concurrent clients.  *)
(***************************************************************************)
NextConfigConc ==
    \/ Tick
    \/ \E p \in Clients :
          \/ GetApiConfigFinal(p)
          \/ PostApiConfig(p)
          \/ SaveConfig(p)
          \/ Close(p)

SpecConfigConc == InitConfig /\ [][NextConfigConc]_vars

GlobalConfigs == {c \in config : c.id = GlobalConfigId}

\* C13: in every state at most one configuration record with id
\* 'global_config' exists, also while two requests that both found none
\* are creating it; and when a public config read has been answered,
\* exactly one exists.
C13_ConfigSingleton ==
    /\ Cardinality(GlobalConfigs) <= 1
    /\ \A p \in Clients :
          (req[p].pc = "done" /\ req[p].op \in {"getConfig", "getConfigFinal"})
              => Cardinality(GlobalConfigs) = 1

\* C13 witness: two requests both found no record and both built one, at
\* different times; the first save went through, the second was rejected.
C13_Witness ==
    /\ req[1].cfgBefore = {} /\ req[2].cfgBefore = {}
    /\ Done(1, "getConfig") /\ req[1].status = 200
    /\ Done(2, "resetPassword") /\ req[2].status = 500
    /\ req[1].at # req[2].at
    /\ Cardinality(config) = 1

(***************************************************************************)
(* The final catalog revision, each list saved twice: after a replace-all  *)
(* has been answered the same client sends the same goodsList again.  The  *)
(* store does not fail.                                                    *)
(***************************************************************************)
\* the second save of the list the first request carried
PostApiGoodsAgain(p) ==
    /\ PostDone(1)
    /\ PostApiGoodsFrom(p, {req[1].goodsList})

\* the first request's record is dropped once the second is
CloseFirst ==
    /\ Free(2)
    /\ Close(1)

NextTwice ==
    \/ Tick
    \/ PostApiGoods(1)
    \/ PostApiGoodsAgain(2)
    \/ CloseFirst
    \/ Close(2)
    \/ \E p \in Clients :
          \/ DeleteManyStep(p)
          \/ DeleteManyDone(p)
          \/ InsertManyStep(p)

SpecTwice == Init /\ [][NextTwice]_vars

\* C14: when a replace-all with list L has been answered and a second
\* replace-all with the same L has been answered after it, the catalog has
\* the same items (ids, names, scores, descs, images), as many of them, as
\* it had after the first, and the second got the answer the first got.
C14_ReplaceIdempotent ==
    (PostDone(1) /\ PostDone(2)) =>
        /\ {Content(d) : d \in goods} = {Content(d) : d \in req[2].before}
        /\ Cardinality(goods) = Cardinality(req[2].before)
        /\ req[2].status = req[1].status

\* C14 witness: a catalog holding id 1 was replaced by a list of two items,
\* one with an image that is normalised, and the list has been saved
\* again at a later time.
C14_Witness ==
    /\ PostDone(1) /\ PostDone(2)
    /\ req[1].status = 200 /\ req[2].status = 200
    /\ Len(req[1].goodsList.items) = 2
    /\ \E i \in 1..2 : req[1].goodsList.items[i].image = NotBase64
    /\ \E d \in req[1].before : d.id = Num(1)
    /\ Cardinality(goods) = 2
    /\ \E d \in goods : \E e \in req[2].before : d.id = e.id /\ d.updatedAt # e.updatedAt

(***************************************************************************)
(* The image normaliser on its own: cleanImageURL applied to the values a  *)
(* request body or a stored document can hand it.                          *)
(***************************************************************************)
\* JSON null (typeof null === 'object') and a JSON boolean
Null == [t |-> "object", s |-> <<>>, n |-> 0]

Bool(b) == [t |-> "boolean", s |-> <<>>, n |-> IF b THEN 1 ELSE 0]

\* every prefix of an inline-encoded image, the empty string included
PrefixesOf(str) == {Str(SubSeq(str.s, 1, k)) : k \in 0..Len(str.s)}

ImageValues ==
    {Undefined, Null, Bool(TRUE), Num(0), Num(7), NotBase64, DefaultGoodsImage,
     DefaultBannerImage,
     Str(<<" ">> \o PngImage.s),
     Str(<<"D">> \o SubSeq(PngImage.s, 2, Len(PngImage.s))),
     Str(<<"x", "d", "a", "t", "a", ":", "i", "m", "a", "g", "e", "/">>)}
        \cup PrefixesOf(PngImage)

\* a handler calls cleanImageURL(url) and answers with what it returns
NormalizeImage(p) ==
    /\ Free(p)
    /\ \E url \in ImageValues :
          req' = Respond([req EXCEPT ![p] = [Idle EXCEPT !.op = "cleanImageURL",
                                                         !.body.bannerImage = url]],
                         p, 200, cleanImageURL(url))
    /\ UNCHANGED <<goods, config, now>>

NextImage == \E p \in Clients : NormalizeImage(p) \/ Close(p)

SpecImage == Init /\ [][NextImage]_vars

\* C15: for every input, cleanImageURL returns the input itself when it is
\* a string whose first eleven characters are 'data:image/', and the string
\* '/images/goods/default_goods.png' in every other case (another string,
\* the empty string, undefined, null, a number, a boolean).
C15_NormalizeTotal ==
    \A p \in Clients :
        Done(p, "cleanImageURL") =>
            LET url == req[p].body.bannerImage
                tag == <<"d", "a", "t", "a", ":", "i", "m", "a", "g", "e", "/">>
                tagged == /\ url.t = "string"
                          /\ Len(url.s) >= Len(tag)
                          /\ \A i \in DOMAIN tag : url.s[i] = tag[i]
            IN  /\ req[p].status = 200
                /\ req[p].data =
                      IF tagged
                        THEN url
                        ELSE Str(<<"/", "i", "m", "a", "g", "e", "s", "/",
                                   "g", "o", "o", "d", "s", "/",
                                   "d", "e", "f", "a", "u", "l", "t", "_",
                                   "g", "o", "o", "d", "s", ".", "p", "n", "g">>)

\* C15 witness: one call got the bare tag 'data:image/' and returned it
\* unchanged, another got a number and returned the default.
C15_Witness ==
    /\ Done(1, "cleanImageURL") /\ Done(2, "cleanImageURL")
    /\ req[1].body.bannerImage = Str(DataImagePrefix)
    /\ req[1].data = Str(DataImagePrefix)
    /\ req[2].body.bannerImage = Num(7)
    /\ req[2].data = DefaultGoodsImage

(***************************************************************************)
(* server.js: the goods routes, scoped by owner (openid).                  *)
(***************************************************************************)
OwnerA == Str(<<"A">>)

OwnerB == Str(<<"B">>)

\* openid as a request carries it: absent, empty, or an owner's
OpenidInputs == {Undefined, Str(<<>>), OwnerA, OwnerB}

\* !openid
MissingOpenid(openid) ==
    \/ openid.t \in {"undefined", "object"}
    \/ openid.t = "string" /\ Len(openid.s) = 0
    \/ openid.t \in {"number", "boolean"} /\ openid.n = 0

\* an item of goodsList as the client sends it: what an earlier read gave
\* it (openid, createdAt, updatedAt included) or a new item without them
OwnerGoodsInput(id, image, openid, updatedAt) ==
    [id |-> id, name |-> NameX, score |-> Score10, desc |-> DescD,
     image |-> image, openid |-> openid, createdAt |-> Undefined,
     updatedAt |-> updatedAt]

OwnerItemInputs ==
    {OwnerGoodsInput(Num(i), PngImage, Undefined, Undefined) : i \in 1..MaxId}
        \cup {OwnerGoodsInput(Num(2), PngImage, Undefined, Date(0)),
              OwnerGoodsInput(Num(1), PngImage, OwnerB, Undefined),
              OwnerGoodsInput(Num(1), Undefined, Undefined, Undefined)}

OwnerGoodsListInputs ==
    {NoList, StringList} \cup {ArrayOf(l) : l \in SeqsUpTo(OwnerItemInputs, MaxLen)}

\* GoodsSchema of server.js: openid is required too
OwnerGoodsValid(doc) == GoodsValid(doc) /\ RequiredString(doc.openid)

\* goodsToInsert with the spread after openid: ({ openid, ...good })
goodsToInsertSpreadLast(items, openid, time) ==
    [i \in DOMAIN items |->
        [id |-> items[i].id, name |-> items[i].name, score |-> items[i].score,
         desc |-> items[i].desc, image |-> items[i].image,
         openid |-> IF items[i].openid.t # "undefined"
                      THEN items[i].openid ELSE openid,
         createdAt |-> Date(time),
         updatedAt |-> IF items[i].updatedAt.t # "undefined"
                         THEN items[i].updatedAt ELSE Date(time)]]

\* goodsList.map(good => ({ ...good, openid })), made documents by
\* insertMany: createdAt and updatedAt default to Date.now
goodsToInsert(items, openid, time) ==
    [i \in DOMAIN items |->
        [id |-> items[i].id, name |-> items[i].name, score |-> items[i].score,
         desc |-> items[i].desc, image |-> items[i].image,
         openid |-> openid,
         createdAt |-> IF items[i].createdAt.t # "undefined"
                         THEN items[i].createdAt ELSE Date(time),
         updatedAt |-> IF items[i].updatedAt.t # "undefined"
                         THEN items[i].updatedAt ELSE Date(time)]]

\* Goods.find({ openid })
FindByOwner(coll, openid) == {d \in coll : d.openid = openid}

\* .sort({ updatedAt: -1 }): every order descending in updatedAt
SortUpdatedAtDesc(coll) ==
    {l \in [1..Cardinality(coll) -> coll] :
        /\ \A i, j \in DOMAIN l : i # j => l[i] # l[j]
        /\ \A i, j \in DOMAIN l : i < j => l[i].updatedAt.n >= l[j].updatedAt.n}

GetGoodsByOwner(p) ==
    /\ Free(p)
    /\ \E openid \in OpenidInputs :
          LET rq == [req EXCEPT ![p] = [Idle EXCEPT !.op = "getGoodsOwner",
                                                    !.body.openid = openid,
                                                    !.before = goods]]
          IN  IF MissingOpenid(openid)
                THEN req' = Respond(rq, p, 400, <<>>)
                ELSE \E found \in SortUpdatedAtDesc(FindByOwner(goods, openid)) :
                        req' = Respond(rq, p, 200, found)
    /\ UNCHANGED <<goods, config, now>>

\* PostGoodsByOwner with deleteMany issued ahead of the openid check
PostGoodsByOwnerEager(p) ==
    /\ Free(p)
    /\ \E openid \in OpenidInputs, gl \in OwnerGoodsListInputs :
          LET rq == [req EXCEPT ![p] = [Idle EXCEPT !.op = "postGoodsOwner",
                                                    !.goodsList = gl,
                                                    !.body.openid = openid,
                                                    !.before = goods]]
          IN  IF MissingOpenid(openid)
                THEN /\ goods' = {}
                     /\ req' = Respond(rq, p, 400, <<>>)
                ELSE /\ goods' = goods
                     /\ req' = [rq EXCEPT ![p].pc = "deleteManyOwner",
                                          ![p].scan = FindByOwner(goods, openid)]
    /\ UNCHANGED <<config, now>>

\* the request arrives: the openid check, then deleteMany({ openid })
PostGoodsByOwner(p) ==
    /\ Free(p)
    /\ \E openid \in OpenidInputs, gl \in OwnerGoodsListInputs :
          LET rq == [req EXCEPT ![p] = [Idle EXCEPT !.op = "postGoodsOwner",
                                                    !.goodsList = gl,
                                                    !.body.openid = openid,
                                                    !.before = goods]]
          IN  req' = IF MissingOpenid(openid)
                       THEN Respond(rq, p, 400, <<>>)
                       ELSE [rq EXCEPT ![p].pc = "deleteManyOwner",
                                       ![p].scan = FindByOwner(goods, openid)]
    /\ UNCHANGED <<goods, config, now>>

\* deleteMany({ openid }) removes the owner's documents one at a time
OwnerDeleteManyStep(p) ==
    /\ req[p].pc = "deleteManyOwner"
    /\ \E d \in FindByOwner(goods, req[p].body.openid) :
          /\ goods' = goods \ {d}
          /\ req' = Unscan(req, d)
    /\ UNCHANGED <<config, now>>

\* deleteMany has resolved: `if (goodsList && goodsList.length > 0)`, the
\* map (a TypeError on a string), then insertMany and its validation
OwnerDeleteManyDone(p) ==
    /\ req[p].pc = "deleteManyOwner"
    /\ req[p].scan = {}
    /\ LET gl == req[p].goodsList
           docs == goodsToInsert(gl.items, req[p].body.openid, now)
       IN  req' = IF gl.t = "undefined" \/ (gl.t = "array" /\ Len(gl.items) = 0)
                    THEN Respond(req, p, 200, <<>>)
                    ELSE IF gl.t # "array"
                           THEN Respond(req, p, 500, <<>>)
                           ELSE IF \E i \in DOMAIN docs : ~OwnerGoodsValid(docs[i])
                                  THEN Respond(req, p, 500, <<>>)
                                  ELSE [req EXCEPT ![p].pc = "insertMany",
                                                   ![p].processed = docs,
                                                   ![p].idx = 1]
    /\ UNCHANGED <<goods, config, now>>

NextOwner ==
    \/ Tick
    \/ GetGoodsByOwner(1)
    \/ PostGoodsByOwner(1)
    \/ OwnerDeleteManyStep(1)
    \/ OwnerDeleteManyDone(1)
    \/ InsertManyStep(1)
    \/ Close(1)

SpecOwner == Init /\ [][NextOwner]_vars

(***************************************************************************)
(* Properties of the owner-scoped goods routes.                            *)
(***************************************************************************)
OwnerDone(p) == Done(p, "getGoodsOwner") \/ Done(p, "postGoodsOwner")

\* C17: a list-goods or replace-goods request whose openid is missing
\* (absent or empty) is answered 400, never reaches deleteMany or
\* insertMany, and leaves the goods collection as it was.
C17_MissingOpenidRejected ==
    /\ (OwnerDone(1) /\ MissingOpenid(req[1].body.openid)) =>
          (req[1].status = 400 /\ goods = req[1].before)
    /\ req[1].pc \in {"deleteManyOwner", "insertMany"} =>
          ~MissingOpenid(req[1].body.openid)

\* C17 witness: a replace request without openid, carrying a list of two
\* items, has been refused while the collection holds goods.
C17_Witness ==
    /\ Done(1, "postGoodsOwner") /\ req[1].status = 400
    /\ req[1].body.openid = Undefined
    /\ Len(req[1].goodsList.items) = 2
    /\ goods # {}

\* the list is an array of valid items, no two with the same id
OwnerListValid(gl, openid) ==
    /\ gl.t = "array"
    /\ DistinctIds(gl.items)
    /\ \A i \in DOMAIN gl.items :
          OwnerGoodsValid(goodsToInsert(gl.items, openid, 0)[i])

\* C18 (as claimed): no two items of one owner share an id, and a
\* replace-all by an owner with a valid list of distinct ids is
\* acknowledged and stored whatever ids the other owners hold.
C18_IdsUniquePerScope ==
    /\ \A d, e \in goods : (d.openid = e.openid /\ d.id = e.id) => d = e
    /\ (/\ Done(1, "postGoodsOwner")
        /\ ~MissingOpenid(req[1].body.openid)
        /\ OwnerListValid(req[1].goodsList, req[1].body.openid)) =>
          /\ req[1].status = 200
          /\ {d.id : d \in FindByOwner(goods, req[1].body.openid)} =
                {req[1].goodsList.items[i].id : i \in DOMAIN req[1].goodsList.items}

\* C18, the divergence reached: owner B holds id 1; owner A, who held id 2,
\* saves a list with the single id 1, is answered 500 and holds nothing.
C18_Witness ==
    /\ Done(1, "postGoodsOwner") /\ req[1].status = 500
    /\ req[1].body.openid = OwnerA
    /\ OwnerListValid(req[1].goodsList, OwnerA)
    /\ Len(req[1].goodsList.items) = 1
    /\ req[1].goodsList.items[1].id = Num(1)
    /\ \E d \in goods : d.openid = OwnerB /\ d.id = Num(1)
    /\ \E d \in req[1].before : d.openid = OwnerA /\ d.id = Num(2)
    /\ FindByOwner(goods, OwnerA) = {}

\* C20: while and after a replace-all for an owner runs, the items of every
\* other owner are those the collection held when it arrived, and every
\* item that has entered belongs to the owner; a list-goods read for an
\* owner returns the owner's items, all of them and no other.
C20_ScopesIsolated ==
    /\ (req[1].op = "postGoodsOwner" /\ req[1].pc # "idle") =>
          LET A == req[1].body.openid
          IN  /\ {d \in goods : d.openid # A} = {d \in req[1].before : d.openid # A}
              /\ \A d \in goods \ req[1].before : d.openid = A
    /\ (Done(1, "getGoodsOwner") /\ req[1].status = 200) =>
          LET A == req[1].body.openid
              data == req[1].data
          IN  /\ {data[i] : i \in DOMAIN data} = FindByOwner(goods, A)
              /\ Len(data) = Cardinality(FindByOwner(goods, A))

\* C20 witness: owner B holds an item; owner A's replace-all, whose list
\* has an item labelled with B's openid, is acknowledged; B's item is as it
\* was and the new item is A's.
C20_Witness ==
    /\ Done(1, "postGoodsOwner") /\ req[1].status = 200
    /\ req[1].body.openid = OwnerA
    /\ \E i \in DOMAIN req[1].goodsList.items :
          req[1].goodsList.items[i].openid = OwnerB
    /\ FindByOwner(goods, OwnerB) # {}
    /\ FindByOwner(goods, OwnerB) = FindByOwner(req[1].before, OwnerB)
    /\ FindByOwner(goods, OwnerA) # {}

\* The owner-scoped read returns the items in descending updatedAt.
OwnerReadDescendingUpdatedAt ==
    (Done(1, "getGoodsOwner") /\ req[1].status = 200) =>
        \A i, j \in DOMAIN req[1].data :
            i < j => req[1].data[i].updatedAt.n >= req[1].data[j].updatedAt.n

(***************************************************************************)
(* The final catalog revision with clients that send back the createdAt an *)
(* earlier read gave them, so that one catalog holds items created at      *)
(* different times.                                                        *)
(***************************************************************************)
\* good.createdAt as sent back: absent for a new item, or the earlier date
SentCreatedAt == {Undefined, Date(0)}

OrderListInputs ==
    {ArrayOf(l) :
        l \in SeqsUpTo({GoodsInput(Num(i), NameX, Score10, DescD, PngImage, c) :
                           i \in 1..MaxId, c \in SentCreatedAt}, MaxLen)}

PostApiGoodsCreatedAt(p) == PostApiGoodsFrom(p, OrderListInputs)

NextOrder ==
    \/ Tick
    \/ GetApiGoods(1)
    \/ PostApiGoodsCreatedAt(1)
    \/ DeleteManyStep(1)
    \/ DeleteManyDone(1)
    \/ InsertManyStep(1)
    \/ Close(1)

SpecOrder == Init /\ [][NextOrder]_vars

OwnerReadOrdered ==
    /\ Done(1, "getGoodsOwner") /\ Len(req[1].data) = 2
    /\ req[1].data[1].updatedAt.n > req[1].data[2].updatedAt.n

(***************************************************************************)
(* The public config read on an empty configuration collection.            *)
(***************************************************************************)
\* C19 (as claimed): a public config read of the final revision that found
\* no record is acknowledged, has persisted one record holding the schema
\* defaults, and has returned those defaults: the default bannerImage
\* '/images/banner.png', the default title and the default rules.
C19_ReadCreatesDefaults ==
    (Done(1, "getConfigFinal") /\ req[1].cfgBefore = {}) =>
        /\ req[1].status = 200
        /\ config = {NewConfigFinal(req[1].at)}
        /\ FindOneConfig(config).bannerImage = DefaultBannerImage
        /\ FindOneConfig(config).bannerTitle = DefaultBannerTitle
        /\ FindOneConfig(config).ruleList = DefaultRuleList
        /\ req[1].data = [bannerImage |-> DefaultBannerImage,
                          bannerTitle |-> DefaultBannerTitle,
                          ruleList |-> DefaultRuleList,
                          updatedAt |-> Date(req[1].at)]

\* C19, the divergence reached: the record persisted holds the default
\* bannerImage, and the response carries the goods placeholder instead.
C19_Witness ==
    /\ Done(1, "getConfigFinal") /\ req[1].cfgBefore = {}
    /\ req[1].status = 200
    /\ FindOneConfig(config).bannerImage = DefaultBannerImage
    /\ req[1].data.bannerImage = DefaultGoodsImage
    /\ req[1].data.bannerTitle = DefaultBannerTitle
    /\ req[1].data.ruleList = DefaultRuleList

\* The same read in server.js, which does not normalise: the record is
\* created with the defaults and the response carries them.
ServerReadCreatesDefaults ==
    (Done(1, "getConfig") /\ req[1].cfgBefore = {}) =>
        /\ req[1].status = 200
        /\ config = {NewConfig(req[1].at)}
        /\ req[1].data = [bannerImage |-> DefaultBannerImage,
                          bannerTitle |-> DefaultBannerTitle,
                          ruleList |-> DefaultRuleList,
                          updatedAt |-> Date(req[1].at)]

Authorizing(c) == {a \in AdminPwdInputs : ~InvalidAdminPassword(a, c)}

\* C22 (as claimed): once a POST /api/admin/config carrying the stored
\* secret is acknowledged, the stored adminPassword is the newAdminPassword
\* of the request when that is present and not blank, and the earlier one
\* when it is absent, empty or white space; the gate then accepts that
\* secret and no other.
C22_NewSecretRotation ==
    (AdminDone(1) /\ req[1].status = 200) =>
        LET old == StoredBefore(1)
            new == FindOneConfig(config)
            P == req[1].body.newAdminPassword
        IN  /\ new.adminPassword = IF NewPasswordGiven(P) THEN P ELSE old.adminPassword
            /\ Authorizing(new) = {IF NewPasswordGiven(P) THEN P ELSE old.adminPassword}

\* C22, the divergence reached: a request with the stored secret and a new,
\* non-blank secret is acknowledged; the stored secret is the old one, the
\* old one still authorizes and the new one does not.
C22_Witness ==
    /\ Done(1, "adminRead") /\ req[1].status = 200
    /\ req[1].body.adminPwd = DefaultAdminPassword
    /\ req[1].body.newAdminPassword = OtherPassword
    /\ FindOneConfig(config).adminPassword = DefaultAdminPassword
    /\ Authorizing(FindOneConfig(config)) = {DefaultAdminPassword}

\* The second registration called directly does what C22 says.
AdminWriteRotation ==
    (Done(1, "adminWrite") /\ req[1].status = 200) =>
        LET old == StoredBefore(1)
            new == FindOneConfig(config)
            P == req[1].body.newAdminPassword
        IN  /\ new.adminPassword = IF NewPasswordGiven(P) THEN P ELSE old.adminPassword
            /\ Authorizing(new) = {IF NewPasswordGiven(P) THEN P ELSE old.adminPassword}

\* a blank new secret was ignored and a non-blank one stored
AdminWriteRotated ==
    /\ Done(1, "adminWrite") /\ req[1].status = 200
    /\ req[1].body.newAdminPassword = Str(<<" ">>)
    /\ StoredBefore(1).adminPassword = OtherPassword
    /\ FindOneConfig(config).adminPassword = OtherPassword

(***************************************************************************)
(* The final revision started on a database an earlier revision has        *)
(* written: part_001 stores goodsList as sent (insertMany(goodsList)), so  *)
(* images of any kind are stored, and the configuration record, if there   *)
(* is one, holds the schema default or whatever was posted.                *)
(***************************************************************************)
\* a document part_001 stored
LegacyGoods(id, image) ==
    [id |-> Num(id), name |-> NameX, score |-> Score10, desc |-> DescD,
     image |-> image, createdAt |-> Date(0), updatedAt |-> Date(0)]

\* collections part_001 can have left: at most one document per id
LegacyCatalogs ==
    {c \in SUBSET {LegacyGoods(i, img) : i \in 1..MaxId, img \in ImageInputs} :
        \A d, e \in c : d.id = e.id => d = e}

LegacyConfigs ==
    {{}} \cup {{[NewConfigFinal(0) EXCEPT !.bannerImage = img]} :
                  img \in {DefaultBannerImage, NotBase64, PngImage}}

InitLegacy ==
    /\ goods \in LegacyCatalogs
    /\ config \in LegacyConfigs
    /\ now = 0
    /\ req = [p \in Procs |-> Idle]

NextLegacy ==
    \/ Tick
    \/ GetApiGoods(1)
    \/ GetApiConfigFinal(1)
    \/ PostApiConfig(1)
    \/ SaveConfig(1)
    \/ Close(1)

SpecLegacy == InitLegacy /\ [][NextLegacy]_vars

\* a string that starts with 'data:image/'
ValidlyTagged(v) ==
    LET tag == <<"d", "a", "t", "a", ":", "i", "m", "a", "g", "e", "/">>
    IN  /\ v.t = "string"
        /\ Len(v.s) >= Len(tag)
        /\ \A i \in DOMAIN tag : v.s[i] = tag[i]

\* the string '/images/goods/default_goods.png'
IsPlaceholder(v) ==
    v = Str(<<"/", "i", "m", "a", "g", "e", "s", "/", "g", "o", "o", "d", "s", "/",
              "d", "e", "f", "a", "u", "l", "t", "_", "g", "o", "o", "d", "s",
              ".", "p", "n", "g">>)

\* C23: in every list-goods response every image, and in every public
\* config-read response the bannerImage, starts with 'data:image/' or is
\* the placeholder '/images/goods/default_goods.png', whatever is stored.
C23_ResponsesCarryNormalImages ==
    /\ (Done(1, "getGoods") /\ req[1].status = 200) =>
          \A i \in DOMAIN req[1].data :
              ValidlyTagged(req[1].data[i].image) \/ IsPlaceholder(req[1].data[i].image)
    /\ (Done(1, "getConfigFinal") /\ req[1].status = 200) =>
          (ValidlyTagged(req[1].data.bannerImage) \/ IsPlaceholder(req[1].data.bannerImage))

\* C23 witness: the catalog holds one item stored with an inline image and
\* one stored with other text; the read returns the first as stored and
\* the placeholder for the second, and the stored documents are untouched.
C23_Witness ==
    /\ Done(1, "getGoods") /\ req[1].status = 200
    /\ \E d \in goods : d.image = NotBase64
    /\ \E d \in goods : d.image = PngImage
    /\ \E i \in DOMAIN req[1].data : req[1].data[i].image = PngImage
    /\ \E i \in DOMAIN req[1].data : req[1].data[i].image = DefaultGoodsImage

\* a public config read on a record stored with the schema default banner
LegacyConfigRead ==
    /\ Done(1, "getConfigFinal") /\ req[1].status = 200
    /\ FindOneConfig(config).bannerImage = DefaultBannerImage
    /\ req[1].data.bannerImage = DefaultGoodsImage
    /\ req[1].cfgBefore # {}

(***************************************************************************)
(* The order of a read against the order of the list that was saved.       *)
(***************************************************************************)
\* the ids of a sequence of items or documents, in order
IdsOf(items) == [i \in DOMAIN items |-> items[i].id]

\* C24 (as claimed): once a replace-all is acknowledged, every response a
\* list-goods read can give has the items in the order of the submitted
\* list, whether or not the items carried a createdAt.
C24_ReadKeepsSubmittedOrder ==
    (PostDone(1) /\ req[1].status = 200) =>
        \A data \in ListGoodsResponses : IdsOf(data) = IdsOf(req[1].goodsList.items)

\* C24, the divergence reached: the saved list has a new item first and an
\* item with an earlier createdAt second; every read returns the second
\* item first.
C24_Witness ==
    /\ PostDone(1) /\ req[1].status = 200
    /\ IdsOf(req[1].goodsList.items) = <<Num(1), Num(2)>>
    /\ req[1].goodsList.items[1].createdAt = Undefined
    /\ req[1].goodsList.items[2].createdAt = Date(0)
    /\ \A data \in ListGoodsResponses : IdsOf(data) = <<Num(2), Num(1)>>

(***************************************************************************)
(* Reads and the stored state.                                             *)
(***************************************************************************)
\* C25: after a list-goods read the goods collection is what it was when
\* the request arrived; after an admin read-full, and after a public config
\* read that found a record, the configuration collection is what it was:
\* the repaired image goes into the response only.
C25_ReadsLeaveStoreUnchanged ==
    /\ (Done(1, "getGoods") \/ Done(1, "getGoodsOwner")) => goods = req[1].before
    /\ Done(1, "adminRead") => config = req[1].cfgBefore
    /\ ((Done(1, "getConfigFinal") \/ Done(1, "getConfig")) /\ req[1].cfgBefore # {})
          => config = req[1].cfgBefore

\* C25 witness: a public config read found a record whose bannerImage is
\* not an inline image, answered with the placeholder, and the record
\* still holds what it held.
C25_Witness ==
    /\ Done(1, "getConfigFinal") /\ req[1].status = 200
    /\ req[1].cfgBefore # {}
    /\ StoredBefore(1).bannerImage = NotBase64
    /\ req[1].data.bannerImage = DefaultGoodsImage
    /\ FindOneConfig(config).bannerImage = NotBase64

\* a list-goods read that repaired an image in its response
RepairedGoodsRead ==
    /\ Done(1, "getGoods") /\ req[1].status = 200
    /\ \E d \in goods : d.image = NotBase64
    /\ \A i \in DOMAIN req[1].data : req[1].data[i].image # NotBase64

\* an admin read-full that returned the configuration
AdminReadAnswered ==
    /\ Done(1, "adminRead") /\ req[1].status = 200
    /\ req[1].data = FindOneConfig(config)

====
